---- MODULE Spec2Model ----
(***************************************************************************)
(* ArrayString<A: Array<Item=u8>> (src/src/array_string.rs): a string with *)
(* a fixed capacity, backed by an uninitialised byte array `xs` and a      *)
(* length `len`.                                                           *)
(***************************************************************************)
EXTENDS Integers, Sequences, FiniteSets, TLC

VARIABLES
    xs,                 \* xs[b]: the backing array of buffer b, Cap bytes
    len,                \* len[b]: the stored length of buffer b (A::Index)
    ret,                \* the last call made and the value it returned
    debug_assertions,   \* whether the build checks debug_assert!
    panicked,           \* whether a call panicked
    ref,                \* ref[b]: the reference model run beside buffer b
    appended,           \* appended[b]: bytes of the appends that returned Ok
                        \* since b was created, counted while fresh[b]
    fresh               \* fresh[b]: only appends were called on b so far

vars == <<xs, len, ret, debug_assertions, panicked, ref, appended, fresh>>

----------------------------------------------------------------------------
(* Bounds of the model *)

\* A::capacity() of the array type the buffers are instantiated with
Cap == 4

\* longest argument of push_str / write_str, in characters
MaxStrChars == 2

\* most fragments of one formatted write
MaxFrags == 2

\* width of usize in bits (scaled down); sizes are computed modulo 2^UsizeBits
UsizeBits == 4

\* the buffer values of the program
Bufs == {1}

\* characters given to push: 'a', U+00E9, U+20AC, U+1F600 (1, 2, 3, 4 bytes)
Chars == {97, 233, 8364, 128512}

\* characters of the longer &str arguments: 'a', U+20AC (1 and 3 bytes)
StrChars == {97, 8364}

----------------------------------------------------------------------------
(* Bytes, characters and text *)

\* an array slot that mem::uninitialized() left without a value
Uninit == -1

\* char::encode_utf8, which fmt::Write::write_char applies to the character
encode_utf8(c) ==
    IF c < 128 THEN <<c>>
    ELSE IF c < 2048 THEN <<192 + (c \div 64), 128 + (c % 64)>>
    ELSE IF c < 65536 THEN
        <<224 + (c \div 4096), 128 + ((c \div 64) % 64), 128 + (c % 64)>>
    ELSE
        <<240 + (c \div 262144), 128 + ((c \div 4096) % 64),
          128 + ((c \div 64) % 64), 128 + (c % 64)>>

RECURSIVE Concat(_)
\* the bytes of the &str made of the characters cs
Concat(cs) ==
    IF cs = <<>> THEN <<>> ELSE encode_utf8(Head(cs)) \o Concat(Tail(cs))

CharSeqs(A, n) == UNION {[1..k -> A] : k \in 0..n}

\* the &str arguments: "", every single character, and every text of at
\* most MaxStrChars characters of StrChars
Strs == {Concat(cs) : cs \in CharSeqs(Chars, 1) \cup CharSeqs(StrChars, MaxStrChars)}

----------------------------------------------------------------------------
(* The operations, as functions of the buffer value self = [xs, len].      *)
(* An operation yields the buffer after the call, the value returned, and  *)
(* whether the call panicked.                                              *)

capacity == Cap

\* Index::from(usize) and Index::to_usize of the length type A::Index (u8)
IndexFrom(n) == n % 256
to_usize(i) == i

new_array == [i \in 1..capacity |-> Uninit]

new == [xs |-> new_array, len |-> IndexFrom(0)]

\* self.len() of the str the buffer derefs to
bytelen(self) == to_usize(self.len)

Ok == [tag |-> "Ok"]
Err(e) == [tag |-> "Err", error |-> e]
\* CapacityError::new(element)
CapacityError(e) == [kind |-> "CapacityError", element |-> e]
fmt_Error == [kind |-> "fmt::Error"]

Return(self, res) == [self |-> self, res |-> res, panic |-> FALSE]
Panic(self) == [self |-> self, res |-> Err([kind |-> "panic"]), panic |-> TRUE]

\* set_len without the debug assertion
set_len_unasserted(self, length, debug) ==
    Return([self EXCEPT !.len = IndexFrom(length)], Ok)

\* set_len: debug_assert!(length <= self.capacity()); self.len = Index::from(length)
set_len(self, length, debug) ==
    IF debug /\ ~(length <= capacity)
    THEN Panic(self)
    ELSE Return([self EXCEPT !.len = IndexFrom(length)], Ok)

\* usize arithmetic: a + b as the machine computes it
usize_MAX == 2 ^ UsizeBits - 1
usize_add(a, b) == (a + b) % (usize_MAX + 1)
usize_overflows(a, b) == a + b > usize_MAX
\* the greatest length of a str or an array in bytes
isize_MAX == 2 ^ (UsizeBits - 1) - 1

\* (&mut sl[at..]).write(bytes): copies min(|bytes|, |sl| - at) bytes to sl[at..]
slice_write(sl, at, bytes) ==
    LET n == IF Len(bytes) <= Len(sl) - at THEN Len(bytes) ELSE Len(sl) - at
    IN [i \in 1..Len(sl) |->
            IF i > at /\ i <= at + n THEN bytes[i - at] ELSE sl[i]]

\* push_str with the capacity check off by one (>= capacity + 1 accepted)
push_str_unchecked(self, s, debug) ==
    IF bytelen(self) + Len(s) > capacity + 1
    THEN Return(self, Err(CapacityError(s)))
    ELSE LET sl == slice_write(self.xs, bytelen(self), s)
             newl == bytelen(self) + Len(s)
         IN set_len([self EXCEPT !.xs = sl], newl, debug)

\* push_str copying the prefix that fits before it rejects
push_str_partial(self, s, debug) ==
    IF bytelen(self) + Len(s) > capacity
    THEN Return([xs |-> slice_write(self.xs, bytelen(self), s),
                 len |-> IndexFrom(capacity)], Err(CapacityError(s)))
    ELSE LET sl == slice_write(self.xs, bytelen(self), s)
             newl == bytelen(self) + Len(s)
         IN set_len([self EXCEPT !.xs = sl], newl, debug)

\* push_str writing at the start of the array instead of at self.len()
push_str_at_zero(self, s, debug) ==
    IF bytelen(self) + Len(s) > capacity
    THEN Return(self, Err(CapacityError(s)))
    ELSE LET sl == slice_write(self.xs, 0, s)
             newl == bytelen(self) + Len(s)
         IN set_len([self EXCEPT !.xs = sl], newl, debug)

\* push_str rejecting the argument that fills the array exactly (>= for >)
push_str_strict(self, s, debug) ==
    IF bytelen(self) + Len(s) >= capacity
    THEN Return(self, Err(CapacityError(s)))
    ELSE LET sl == slice_write(self.xs, bytelen(self), s)
             newl == bytelen(self) + Len(s)
         IN set_len([self EXCEPT !.xs = sl], newl, debug)

\* push_str adding one to the length for each call instead of s.len()
push_str_count_one(self, s, debug) ==
    IF bytelen(self) + Len(s) > capacity
    THEN Return(self, Err(CapacityError(s)))
    ELSE LET sl == slice_write(self.xs, bytelen(self), s)
             newl == bytelen(self) + 1
         IN set_len([self EXCEPT !.xs = sl], newl, debug)

\* push_str setting the length without copying the bytes
push_str_no_copy(self, s, debug) ==
    IF bytelen(self) + Len(s) > capacity
    THEN Return(self, Err(CapacityError(s)))
    ELSE set_len(self, bytelen(self) + Len(s), debug)

\* push_str adding the lengths in one bit less than usize has
push_str_narrow(self, s, debug) ==
    LET sum == (bytelen(self) + Len(s)) % (2 ^ (UsizeBits - 1))
    IN IF sum > capacity
       THEN Return(self, Err(CapacityError(s)))
       ELSE set_len([self EXCEPT !.xs = slice_write(self.xs, bytelen(self), s)],
                    sum, debug)

\* push_str: `self.len() + s.len()` is a usize addition (it panics on
\* overflow in a build with overflow checks and wraps otherwise), and
\* `sl[self.len()..]` panics when the length is past the slice
push_str(self, s, debug) ==
    IF usize_overflows(bytelen(self), Len(s)) /\ debug
    THEN Panic(self)
    ELSE IF usize_add(bytelen(self), Len(s)) > capacity
    THEN Return(self, Err(CapacityError(s)))
    ELSE IF bytelen(self) > Len(self.xs)
    THEN Panic(self)
    ELSE LET sl == slice_write(self.xs, bytelen(self), s)
             newl == usize_add(bytelen(self), Len(s))
         IN set_len([self EXCEPT !.xs = sl], newl, debug)

\* Result::map_err(|_| e)
map_err(r, e) ==
    IF ~r.panic /\ r.res.tag = "Err" THEN [r EXCEPT !.res = Err(e)] ELSE r

\* write_str returning push_str's error as it is
write_str_raw(self, s, debug) == push_str(self, s, debug)

write_str(self, s, debug) == map_err(push_str(self, s, debug), fmt_Error)

\* a formatted write that restores the buffer when a fragment fails
RECURSIVE write_fmt_all_or_nothing(_, _, _)
write_fmt_all_or_nothing(self, frags, debug) ==
    IF frags = <<>> THEN Return(self, Ok)
    ELSE LET r == write_str(self, Head(frags), debug)
             t == write_fmt_all_or_nothing(r.self, Tail(frags), debug)
         IN IF r.panic \/ r.res.tag = "Err" THEN r
            ELSE IF t.res.tag = "Err" THEN [t EXCEPT !.self = self]
            ELSE t

\* fmt::Write::write_fmt (write!(buffer, ...)): write_str for each fragment
\* in turn, returning at the first error
RECURSIVE write_fmt(_, _, _)
write_fmt(self, frags, debug) ==
    IF frags = <<>> THEN Return(self, Ok)
    ELSE LET r == write_str(self, Head(frags), debug)
         IN IF r.panic \/ r.res.tag = "Err" THEN r
            ELSE write_fmt(r.self, Tail(frags), debug)

\* fmt::Write::write_char: self.write_str(c.encode_utf8(&mut [0; 4]))
write_char(self, c, debug) == write_str(self, encode_utf8(c), debug)

\* push returning write_char's error as it is
push_unmapped(self, c, debug) == write_char(self, c, debug)

\* push writing the character as one byte (c as u8)
push_as_u8(self, c, debug) ==
    map_err(write_str(self, <<c % 256>>, debug), CapacityError(c))

push(self, c, debug) == map_err(write_char(self, c, debug), CapacityError(c))

\* clear leaving the length as it is
clear_keep(self, debug) == set_len(self, bytelen(self), debug)

\* clear erasing the array as well
clear_zeroing(self, debug) ==
    set_len([self EXCEPT !.xs = [i \in 1..capacity |-> 0]], 0, debug)

clear(self, debug) == set_len(self, 0, debug)

\* the &str view: the first len bytes of xs, not validated
deref(self) == SubSeq(self.xs, 1, to_usize(self.len))

\* clone copying the length into a new array instead of copying the array
clone_new_array(self) == Return([xs |-> new_array, len |-> self.len], Ok)

clone(self) == Return([xs |-> self.xs, len |-> self.len], Ok)

----------------------------------------------------------------------------
(* The reference model the buffer is compared with: a byte sequence        *)
(* bounded by the capacity                                                 *)

RefNew == [content |-> <<>>, accepted |-> TRUE]
RefAppend(m, bytes) ==
    IF Len(m.content) + Len(bytes) <= capacity
    THEN [content |-> m.content \o bytes, accepted |-> TRUE]
    ELSE [content |-> m.content, accepted |-> FALSE]
RefClear(m) == [content |-> <<>>, accepted |-> TRUE]
\* after a forced length the model is given the bytes the buffer now spans
RefForced(self) ==
    [content |-> SubSeq(self.xs, 1,
                        IF bytelen(self) <= capacity THEN bytelen(self)
                        ELSE capacity),
     accepted |-> TRUE]

----------------------------------------------------------------------------
(* The state machine: a program calling the safe operations on its buffers *)

buf(b) == [xs |-> xs[b], len |-> len[b]]

Call(op, b, arg, res) == [op |-> op, buf |-> b, arg |-> arg, res |-> res]

\* the effect of a call on buffer b that returned r
Store(b, r) ==
    /\ xs' = [xs EXCEPT ![b] = r.self.xs]
    /\ len' = [len EXCEPT ![b] = r.self.len]
    /\ panicked' = r.panic

Init ==
    /\ debug_assertions \in BOOLEAN
    /\ panicked = FALSE
    /\ xs = [b \in Bufs |-> new.xs]
    /\ len = [b \in Bufs |-> new.len]
    /\ ret = Call("new", 1, <<>>, Ok)
    /\ ref = [b \in Bufs |-> RefNew]
    /\ appended = [b \in Bufs |-> 0]
    /\ fresh = [b \in Bufs |-> TRUE]

New(b) ==
    /\ ~panicked
    /\ Store(b, Return(new, Ok))
    /\ ret' = Call("new", b, <<>>, Ok)
    /\ ref' = [ref EXCEPT ![b] = RefNew]
    /\ appended' = [appended EXCEPT ![b] = 0]
    /\ fresh' = [fresh EXCEPT ![b] = TRUE]
    /\ UNCHANGED debug_assertions

\* the bookkeeping of an append of `bytes` that returned r
Appended(b, bytes, r) ==
    /\ ref' = [ref EXCEPT ![b] = RefAppend(ref[b], bytes)]
    /\ appended' = [appended EXCEPT
                      ![b] = IF fresh[b] /\ r.res.tag = "Ok"
                             THEN @ + Len(bytes) ELSE @]
    /\ UNCHANGED <<fresh, debug_assertions>>

Push(b, c) ==
    LET r == push(buf(b), c, debug_assertions)
    IN /\ ~panicked
       /\ Store(b, r)
       /\ ret' = Call("push", b, c, r.res)
       /\ Appended(b, encode_utf8(c), r)

PushStr(b, s) ==
    LET r == push_str(buf(b), s, debug_assertions)
    IN /\ ~panicked
       /\ Store(b, r)
       /\ ret' = Call("push_str", b, s, r.res)
       /\ Appended(b, s, r)

WriteStr(b, s) ==
    LET r == write_str(buf(b), s, debug_assertions)
    IN /\ ~panicked
       /\ Store(b, r)
       /\ ret' = Call("write_str", b, s, r.res)
       /\ Appended(b, s, r)

Clear(b) ==
    LET r == clear(buf(b), debug_assertions)
    IN /\ ~panicked
       /\ Store(b, r)
       /\ ret' = Call("clear", b, <<>>, r.res)
       /\ ref' = [ref EXCEPT ![b] = RefClear(ref[b])]
       /\ fresh' = [fresh EXCEPT ![b] = FALSE]
       /\ appended' = [appended EXCEPT ![b] = 0]
       /\ UNCHANGED debug_assertions

\* let dst = src.clone();
Clone(src, dst) ==
    LET r == clone(buf(src))
    IN /\ ~panicked
       /\ Store(dst, r)
       /\ ret' = Call("clone", src, dst, r.res)
       /\ ref' = [ref EXCEPT ![dst] = ref[src]]
       /\ appended' = [appended EXCEPT ![dst] = appended[src]]
       /\ fresh' = [fresh EXCEPT ![dst] = fresh[src]]
       /\ UNCHANGED debug_assertions

Next ==
    \/ \E b \in Bufs : New(b)
    \/ \E b \in Bufs, c \in Chars : Push(b, c)
    \/ \E b \in Bufs, s \in Strs : PushStr(b, s)
    \/ \E b \in Bufs, s \in Strs : WriteStr(b, s)
    \/ \E b \in Bufs : Clear(b)
    \/ \E src \in Bufs, dst \in Bufs : Clone(src, dst)

Spec == Init /\ [][Next]_vars

\* unsafe { b.set_len(n) }
SetLen(b, n) ==
    LET r == set_len(buf(b), n, debug_assertions)
    IN /\ ~panicked
       /\ Store(b, r)
       /\ ret' = Call("set_len", b, n, r.res)
       /\ ref' = [ref EXCEPT ![b] = RefForced(r.self)]
       /\ fresh' = [fresh EXCEPT ![b] = FALSE]
       /\ appended' = [appended EXCEPT ![b] = 0]
       /\ UNCHANGED debug_assertions

\* the &str arguments of the programs that also call set_len
ShortStrs == {Concat(cs) : cs \in CharSeqs(StrChars, 1)}

\* the safe operations together with set_len, given lengths up to capacity + 1
NextUnsafe ==
    \/ \E b \in Bufs : New(b)
    \/ \E b \in Bufs, c \in Chars : Push(b, c)
    \/ \E b \in Bufs, s \in ShortStrs : PushStr(b, s)
    \/ \E b \in Bufs, s \in ShortStrs : WriteStr(b, s)
    \/ \E b \in Bufs : Clear(b)
    \/ \E src \in Bufs, dst \in Bufs : Clone(src, dst)
    \/ \E b \in Bufs, n \in 0..(capacity + 1) : SetLen(b, n)

SpecUnsafe == Init /\ [][NextUnsafe]_vars

\* a program with two buffers, each the clone of the other at times
Pair == {1, 2}

InitPair ==
    /\ debug_assertions \in BOOLEAN
    /\ panicked = FALSE
    /\ xs = [b \in Pair |-> new.xs]
    /\ len = [b \in Pair |-> new.len]
    /\ ret = Call("new", 1, <<>>, Ok)
    /\ ref = [b \in Pair |-> RefNew]
    /\ appended = [b \in Pair |-> 0]
    /\ fresh = [b \in Pair |-> TRUE]

NextPair ==
    \/ \E b \in Pair, c \in StrChars : Push(b, c)
    \/ \E b \in Pair, s \in ShortStrs : PushStr(b, s)
    \/ \E b \in Pair : Clear(b)
    \/ \E src \in Pair : \E dst \in Pair \ {src} : Clone(src, dst)

SpecPair == InitPair /\ [][NextPair]_vars

\* the longest texts a &str can hold: isize_MAX bytes and one less
LongStrs == {[i \in 1..n |-> 97] : n \in {isize_MAX - 1, isize_MAX}}

\* appends of texts of every size up to the longest
NextWide ==
    \/ \E b \in Bufs, c \in Chars : Push(b, c)
    \/ \E b \in Bufs, s \in Strs \cup LongStrs : PushStr(b, s)
    \/ \E b \in Bufs : Clear(b)

SpecWide == Init /\ [][NextWide]_vars

\* the fragments of the formatted writes, and their sequences
FragSeqs == UNION {[1..k -> ShortStrs] : k \in 0..MaxFrags}

RECURSIVE RefAppendAll(_, _)
\* the reference model given the fragments one by one until it rejects one
RefAppendAll(m, frags) ==
    IF frags = <<>> THEN [m EXCEPT !.accepted = TRUE]
    ELSE LET n == RefAppend(m, Head(frags))
         IN IF n.accepted THEN RefAppendAll(n, Tail(frags)) ELSE n

\* write!(b, ...) with the fragments frags
WriteFmt(b, frags) ==
    LET r == write_fmt(buf(b), frags, debug_assertions)
    IN /\ ~panicked
       /\ Store(b, r)
       /\ ret' = Call("write_fmt", b, frags, r.res)
       /\ ref' = [ref EXCEPT ![b] = RefAppendAll(ref[b], frags)]
       /\ appended' = [appended EXCEPT
                         ![b] = IF fresh[b]
                                THEN @ + Len(RefAppendAll(ref[b], frags).content)
                                       - Len(ref[b].content)
                                ELSE @]
       /\ UNCHANGED <<fresh, debug_assertions>>

\* formatted writes among pushes and clears
NextFmt ==
    \/ \E b \in Bufs, c \in Chars : Push(b, c)
    \/ \E b \in Bufs, s \in ShortStrs : PushStr(b, s)
    \/ \E b \in Bufs : Clear(b)
    \/ \E b \in Bufs, frags \in FragSeqs : WriteFmt(b, frags)

SpecFmt == Init /\ [][NextFmt]_vars

\* the interleavings of push, push_str and clear alone
NextFuzz ==
    \/ \E b \in Bufs, c \in Chars : Push(b, c)
    \/ \E b \in Bufs, s \in Strs : PushStr(b, s)
    \/ \E b \in Bufs : Clear(b)

SpecFuzz == Init /\ [][NextFuzz]_vars

----------------------------------------------------------------------------
(* Text validity, as str::from_utf8 decides it *)

Cont(x) == x >= 128 /\ x <= 191

RECURSIVE Utf8Valid(_)
Utf8Valid(bs) ==
    IF bs = <<>> THEN TRUE
    ELSE LET b1 == bs[1]
             n == Len(bs)
             rest(k) == Utf8Valid(SubSeq(bs, k + 1, n))
         IN IF b1 >= 0 /\ b1 <= 127 THEN rest(1)
            ELSE IF b1 >= 194 /\ b1 <= 223
                 THEN n >= 2 /\ Cont(bs[2]) /\ rest(2)
            ELSE IF b1 >= 224 /\ b1 <= 239
                 THEN /\ n >= 3
                      /\ Cont(bs[2]) /\ Cont(bs[3])
                      /\ (b1 = 224 => bs[2] >= 160)
                      /\ (b1 = 237 => bs[2] <= 159)
                      /\ rest(3)
            ELSE IF b1 >= 240 /\ b1 <= 244
                 THEN /\ n >= 4
                      /\ Cont(bs[2]) /\ Cont(bs[3]) /\ Cont(bs[4])
                      /\ (b1 = 240 => bs[2] >= 144)
                      /\ (b1 = 244 => bs[2] <= 143)
                      /\ rest(4)
            ELSE FALSE

\* the UTF-8 encodings of the characters of Chars, written out
Utf8Of(c) ==
    CASE c = 97 -> <<97>>
      [] c = 233 -> <<195, 169>>
      [] c = 8364 -> <<226, 130, 172>>
      [] c = 128512 -> <<240, 159, 152, 128>>

\* the text a buffer derefs to
Text(b) == deref(buf(b))

----------------------------------------------------------------------------
(* Claims *)

\* C1: in every state reached from new() by push, push_str, clear, write_str
\* and clone, the stored length of every buffer is between 0 and capacity().
C1_LenWithinCapacity ==
    \A b \in Bufs : to_usize(len[b]) >= 0 /\ to_usize(len[b]) <= capacity

\* C1 witness: a full buffer on which the last append was rejected
C1_Witness ==
    /\ to_usize(len[1]) = capacity
    /\ ret.op \in {"push", "push_str", "write_str"}
    /\ ret.res.tag = "Err"

\* C2: in every state reached by the safe operations the bytes xs[0..len)
\* are valid UTF-8: whole 1-4 byte encodings, none cut at the len boundary,
\* so the unvalidated view deref returns is valid text.
C2_ContentIsUtf8 == \A b \in Bufs : Utf8Valid(Text(b))

\* C2 witness: the text ends with a multi-byte character and the stale byte
\* right after the boundary is a continuation byte of an earlier character
C2_Witness ==
    /\ to_usize(len[1]) >= 1 /\ to_usize(len[1]) < capacity
    /\ Cont(xs[1][to_usize(len[1])])
    /\ Cont(xs[1][to_usize(len[1]) + 1])
    /\ ret.op = "push" /\ ret.res.tag = "Ok"


\* the steps of the claims below: the call ret' was made on buffer b in the
\* state before the step
Called(op, b) == ret'.op = op /\ ret'.buf = b
Before(b) == buf(b)
After(b) == [xs |-> xs'[b], len |-> len'[b]]

\* C3: push_str(s) with len + |s| > capacity returns Err carrying exactly s
\* and leaves the array and the length as they were, also when a prefix of s
\* would fit; a push_str that fits after a rejected one succeeds.
C3_Step(b) ==
    LET s == ret'.arg
        l == bytelen(Before(b))
    IN /\ (Called("push_str", b) /\ l + Len(s) > capacity)
            => /\ ret'.res = Err(CapacityError(s))
               /\ After(b) = Before(b)
               /\ ~panicked'
       /\ (/\ Called("push_str", b) /\ l + Len(s) <= capacity
           /\ ret.op = "push_str" /\ ret.buf = b /\ ret.res.tag = "Err")
            => /\ ret'.res = Ok
               /\ deref(After(b)) = deref(Before(b)) \o s

C3_PushStrRejectsWhole == [][\A b \in Bufs : C3_Step(b)]_vars

\* C3 witness: a rejected push_str on a buffer with content and free room,
\* so that a prefix of the argument would have fitted
C3_Witness ==
    /\ ret.op = "push_str"
    /\ ret.res = Err(CapacityError(ret.arg))
    /\ to_usize(len[1]) >= 1 /\ to_usize(len[1]) < capacity
    /\ Len(ret.arg) >= 2

\* C4: push(c) with len + k > capacity, k the length of c's encoding, returns
\* Err carrying exactly c (never the formatting error) and leaves the array
\* and the length as they were.
C4_Step(b) ==
    LET c == ret'.arg
        k == Len(Utf8Of(c))
        l == bytelen(Before(b))
    IN (Called("push", b) /\ l + k > capacity)
            => /\ ret'.res = Err(CapacityError(c))
               /\ After(b) = Before(b)
               /\ ~panicked'

C4_PushRejectsWhole == [][\A b \in Bufs : C4_Step(b)]_vars

\* C4 witness: a rejected push of a multi-byte character with 1..k-1 free bytes
C4_Witness ==
    /\ ret.op = "push"
    /\ ret.res = Err(CapacityError(ret.arg))
    /\ ret.arg >= 128
    /\ capacity - to_usize(len[1]) >= 1
    /\ capacity - to_usize(len[1]) < Len(Utf8Of(ret.arg))

\* C5: push_str(s) with len + |s| <= capacity returns Ok, the length grows by
\* |s|, the old bytes stay and s follows them; also at len + |s| = capacity
\* and for "" on a full buffer.
C5_Step(b) ==
    LET s == ret'.arg
        n == Len(s)
        l == bytelen(Before(b))
    IN (Called("push_str", b) /\ l + n <= capacity)
            => /\ ret'.res = Ok
               /\ bytelen(After(b)) = l + n
               /\ \A i \in 1..l : xs'[b][i] = xs[b][i]
               /\ \A i \in 1..n : xs'[b][l + i] = s[i]
               /\ deref(After(b)) = deref(Before(b)) \o s
               /\ ~panicked'

C5_PushStrAppends == [][\A b \in Bufs : C5_Step(b)]_vars

\* C5 witness: a push_str of several bytes that filled a buffer with content
C5_Witness ==
    /\ ret.op = "push_str" /\ ret.res = Ok
    /\ to_usize(len[1]) = capacity
    /\ Len(ret.arg) >= 2 /\ Len(ret.arg) < capacity
    /\ SubSeq(xs[1], capacity - Len(ret.arg) + 1, capacity) = ret.arg

\* C6: push(c) returns Ok exactly when len + k <= capacity, k the length of
\* c's UTF-8 encoding, and then appends those k bytes and adds k to the length.
C6_Step(b) ==
    LET c == ret'.arg
        enc == Utf8Of(c)
        k == Len(enc)
        l == bytelen(Before(b))
    IN Called("push", b)
            => /\ k >= 1 /\ k <= 4
               /\ (ret'.res = Ok) <=> (l + k <= capacity)
               /\ (l + k <= capacity)
                    => /\ bytelen(After(b)) = l + k
                       /\ deref(After(b)) = deref(Before(b)) \o enc
                       /\ ~panicked'

C6_PushAppendsChar == [][\A b \in Bufs : C6_Step(b)]_vars

\* C6 witness: a multi-byte character pushed after earlier content
C6_Witness ==
    /\ ret.op = "push" /\ ret.res = Ok
    /\ ret.arg >= 128
    /\ to_usize(len[1]) > Len(Utf8Of(ret.arg))
    /\ SubSeq(Text(1), to_usize(len[1]) - Len(Utf8Of(ret.arg)) + 1,
              to_usize(len[1])) = Utf8Of(ret.arg)


\* C7: under every interleaving of push, push_str and clear, after every
\* step the text of the buffer equals the content of the reference model,
\* the call returned Ok exactly when the model accepted, and the text is
\* valid UTF-8.
C7_MatchesReference ==
    \A b \in Bufs :
        /\ Text(b) = ref[b].content
        /\ Utf8Valid(Text(b))
        /\ ret.buf = b => ((ret.res = Ok) <=> ref[b].accepted)

\* C7 witness: after a clear, the buffer holds text again and the model and
\* the buffer both rejected the last append
C7_Witness ==
    /\ ~fresh[1]
    /\ ret.op \in {"push", "push_str"} /\ ret.res.tag = "Err"
    /\ ~ref[1].accepted
    /\ Len(ref[1].content) >= 2
    /\ Text(1) = ref[1].content

\* the &str whose characters are cs, from the written-out encodings
RECURSIVE Utf8Text(_)
Utf8Text(cs) ==
    IF cs = <<>> THEN <<>> ELSE Utf8Of(Head(cs)) \o Utf8Text(Tail(cs))

\* for c in cs { self.push(c)? }
RECURSIVE push_each(_, _, _)
push_each(self, cs, debug) ==
    IF cs = <<>> THEN Return(self, Ok)
    ELSE LET r == push(self, Head(cs), debug)
         IN IF r.res = Ok THEN push_each(r.self, Tail(cs), debug) ELSE r

\* C8: from every reachable buffer state, for every sequence of characters
\* whose concatenation s fits (len + |s| <= capacity), pushing them one at a
\* time succeeds each time and ends with the length and the text that one
\* push_str(s) from the same state ends with.
C8_PushEachIsPushStr ==
    \A b \in Bufs, cs \in CharSeqs(Chars, MaxStrChars) :
        LET s == Utf8Text(cs)
            one == push_each(buf(b), cs, debug_assertions)
            two == push_str(buf(b), s, debug_assertions)
        IN bytelen(buf(b)) + Len(s) <= capacity
            => /\ one.res = Ok /\ two.res = Ok
               /\ ~one.panic /\ ~two.panic
               /\ one.self.len = two.self.len
               /\ deref(one.self) = deref(two.self)
               /\ deref(one.self) = Text(b) \o s

\* C8 witness: a buffer with content, reached by a push, that two further
\* characters, one of them multi-byte, fill exactly
C8_Witness ==
    /\ ret.op = "push" /\ ret.res = Ok
    /\ to_usize(len[1]) >= 1
    /\ \E cs \in CharSeqs(Chars, MaxStrChars) :
        /\ Len(cs) = 2 /\ cs[1] # cs[2]
        /\ to_usize(len[1]) + Len(Utf8Text(cs)) = capacity
        /\ push_each(buf(1), cs, debug_assertions).res = Ok
        /\ deref(push_each(buf(1), cs, debug_assertions).self)
             = Text(1) \o Utf8Text(cs)

\* C9: on a buffer created by new on which only appends were called, the
\* length is the sum of the byte lengths of the appends that returned Ok;
\* the rejected ones add nothing.
C9_LengthIsSumOfAppends ==
    \A b \in Bufs : fresh[b] => to_usize(len[b]) = appended[b]

\* C9 witness: a buffer filled by appends alone, one multi-byte, on which
\* the last append was rejected
C9_Witness ==
    /\ fresh[1]
    /\ appended[1] = capacity
    /\ xs[1][1] < 128 /\ xs[1][2] >= 128
    /\ ret.op \in {"push", "push_str"} /\ ret.res.tag = "Err"

\* C10: a push_str(s) with |s| <= capacity that follows a clear returns Ok
\* and leaves the text exactly s and the length |s|, whatever the array held
\* before the clear.
C10_Step(b) ==
    LET s == ret'.arg
    IN (/\ ret.op = "clear" /\ ret.buf = b
        /\ Called("push_str", b) /\ Len(s) <= capacity)
            => /\ ret'.res = Ok
               /\ deref(After(b)) = s
               /\ bytelen(After(b)) = Len(s)

C10_ClearThenPushStr == [][\A b \in Bufs : C10_Step(b)]_vars

\* C10 witness: the text is exactly the argument of the last push_str, on a
\* buffer that was full and then cleared: stale bytes follow the text
C10_Witness ==
    /\ ret.op = "push_str" /\ ret.res = Ok
    /\ ~fresh[1]
    /\ Len(ret.arg) >= 1 /\ Len(ret.arg) < capacity
    /\ Text(1) = ret.arg
    /\ \A i \in 1..capacity : xs[1][i] # Uninit
    /\ xs[1][to_usize(len[1]) + 1] >= 128


\* C12: a write_str(s) on the buffer appends s as push_str does; when s does
\* not fit it returns fmt::Error, which carries neither the fragment nor a
\* capacity detail, and the buffer gets no byte of s.
C12_Step(b) ==
    LET s == ret'.arg
        l == bytelen(Before(b))
        p == push_str(Before(b), s, debug_assertions)
    IN Called("write_str", b)
            => /\ After(b) = p.self
               /\ (ret'.res = Ok) <=> (p.res = Ok)
               /\ (l + Len(s) > capacity)
                    => /\ ret'.res = Err(fmt_Error)
                       /\ DOMAIN ret'.res.error = {"kind"}
                       /\ After(b) = Before(b)
               /\ (l + Len(s) <= capacity)
                    => /\ ret'.res = Ok
                       /\ deref(After(b)) = deref(Before(b)) \o s
               /\ ~panicked'

C12_WriteStrFailsGeneric == [][\A b \in Bufs : C12_Step(b)]_vars

\* C12 witness: a write_str of several bytes rejected with fmt::Error on a
\* buffer with content and free room
C12_Witness ==
    /\ ret.op = "write_str"
    /\ ret.res = Err(fmt_Error)
    /\ to_usize(len[1]) >= 1 /\ to_usize(len[1]) < capacity
    /\ Len(ret.arg) >= 2

\* C14: in every state reached by the safe operations no byte of xs[0..len)
\* is uninitialised: each was written by an append that returned Ok.
C14_TextIsInitialised ==
    \A b \in Bufs : \A i \in 1..to_usize(len[b]) : xs[b][i] # Uninit

\* C14 witness: text in front of slots that were never written
C14_Witness ==
    /\ to_usize(len[1]) >= 1 /\ to_usize(len[1]) < capacity
    /\ \A i \in (to_usize(len[1]) + 1)..capacity : xs[1][i] = Uninit
    /\ ret.op = "push_str" /\ ret.res = Ok /\ Len(ret.arg) >= 1

\* C16: clear sets the length to 0, keeps every byte of the array and the
\* capacity, never fails, and a second clear changes nothing.
C16_Step(b) ==
    Called("clear", b)
        => /\ to_usize(len'[b]) = 0
           /\ xs'[b] = xs[b]
           /\ Len(xs'[b]) = capacity
           /\ ret'.res = Ok
           /\ ~panicked'
           /\ clear(After(b), debug_assertions) = Return(After(b), Ok)

C16_ClearOnlyResetsLength == [][\A b \in Bufs : C16_Step(b)]_vars

\* C16 witness: a cleared buffer whose array still holds the bytes of a
\* multi-byte character
C16_Witness ==
    /\ ret.op = "clear" /\ ret.res = Ok
    /\ to_usize(len[1]) = 0
    /\ xs[1][1] >= 128 /\ Cont(xs[1][2])


\* C13: set_len(n) in a build with debug assertions and n > capacity panics
\* and the length is never n; with n <= capacity the length becomes n and
\* the array is untouched; in a build without them the length becomes n
\* unchecked. A length above capacity arises only from set_len in such a
\* build, never from a safe operation.
C13_Step(b) ==
    LET n == ret'.arg
    IN Called("set_len", b)
        => /\ (debug_assertions /\ n > capacity)
                => /\ panicked'
                   /\ After(b) = Before(b)
           /\ (n <= capacity)
                => /\ ~panicked'
                   /\ to_usize(len'[b]) = n
                   /\ xs'[b] = xs[b]
           /\ (~debug_assertions /\ n > capacity)
                => /\ ~panicked'
                   /\ to_usize(len'[b]) = n
                   /\ xs'[b] = xs[b]

C13_OnlySetLen(b) ==
    /\ (to_usize(len[b]) <= capacity /\ to_usize(len'[b]) > capacity)
            => (Called("set_len", b) /\ ~debug_assertions)
    /\ panicked' => Called("set_len", b)

C13_SetLenContract ==
    [][\A b \in Bufs : C13_Step(b) /\ C13_OnlySetLen(b)]_vars

\* C13 witness: a length above capacity, left by set_len in a build without
\* debug assertions
C13_Witness ==
    /\ ret.op = "set_len" /\ ret.arg > capacity
    /\ ~debug_assertions /\ ~panicked
    /\ to_usize(len[1]) = ret.arg
    /\ \E i \in 1..capacity : xs[1][i] # Uninit


\* C15: clone yields a buffer with the length and the bytes of the source,
\* which satisfies the invariant as it is, and leaves the source alone;
\* afterwards a push, push_str or clear on one of the two buffers leaves the
\* other's array and length unchanged.
C15_CloneStep(src, dst) ==
    (ret'.op = "clone" /\ ret'.buf = src /\ ret'.arg = dst)
        => /\ ret'.res = Ok
           /\ After(dst).len = Before(src).len
           /\ After(dst).xs = Before(src).xs
           /\ deref(After(dst)) = deref(Before(src))
           /\ After(src) = Before(src)
           /\ bytelen(After(dst)) <= capacity
           /\ Utf8Valid(deref(After(dst)))

C15_Apart(b, o) ==
    (ret'.op \in {"push", "push_str", "clear"} /\ ret'.buf = b)
        => After(o) = Before(o)

C15_CloneIsIndependentCopy ==
    [][\A b \in Pair : \A o \in Pair \ {b} :
            C15_CloneStep(b, o) /\ C15_Apart(b, o)]_vars

\* C15 witness: buffer 2 was just cloned from buffer 1, which holds text
\* ending in a multi-byte character and stale bytes after it
C15_Witness ==
    /\ ret.op = "clone" /\ ret.buf = 1 /\ ret.arg = 2
    /\ buf(2) = buf(1)
    /\ to_usize(len[1]) >= 2 /\ to_usize(len[1]) < capacity
    /\ Cont(xs[1][to_usize(len[1])])
    /\ xs[1][to_usize(len[1]) + 1] # Uninit

\* the fragments of a formatted write that fit one after the other, starting
\* from a buffer of l bytes: those before the first that does not fit
RECURSIVE FragsWritten(_, _)
FragsWritten(l, frags) ==
    IF frags = <<>> THEN <<>>
    ELSE IF l + Len(Head(frags)) > capacity THEN <<>>
    ELSE <<Head(frags)>> \o FragsWritten(l + Len(Head(frags)), Tail(frags))

RECURSIVE Flatten(_)
Flatten(frags) ==
    IF frags = <<>> THEN <<>> ELSE Head(frags) \o Flatten(Tail(frags))

\* C17: a formatted write of several fragments is all-or-nothing per fragment
\* only: when fragment k is the first that does not fit, the call returns the
\* generic formatting error and the buffer holds its prior content followed by
\* fragments 1..k-1 in full and no byte of fragment k; when all fit it returns
\* Ok with all of them appended. A failed push or push_str changes nothing.
C17_Step(b) ==
    /\ Called("write_fmt", b)
          => LET frags == ret'.arg
                 w == FragsWritten(bytelen(Before(b)), frags)
             IN /\ Len(w) = Len(frags) => ret'.res = Ok
                /\ Len(w) < Len(frags) => ret'.res = Err(fmt_Error)
                /\ deref(After(b)) = deref(Before(b)) \o Flatten(w)
                /\ \A i \in 1..bytelen(Before(b)) :
                       After(b).xs[i] = Before(b).xs[i]
                /\ bytelen(After(b)) <= capacity
                /\ ~panicked'
    /\ ((Called("push", b) \/ Called("push_str", b)) /\ ret'.res.tag = "Err")
          => After(b) = Before(b)
C17_FormattedWriteIsPerFragment == [][\A b \in Bufs : C17_Step(b)]_vars
\* a formatted write of two fragments failed at the second after appending
\* the first, which would have fit once more
C17_Witness ==
    /\ ret.op = "write_fmt" /\ ret.buf = 1 /\ ret.res = Err(fmt_Error)
    /\ Len(ret.arg) = 2 /\ Len(ret.arg[1]) >= 1
    /\ len[1] + Len(ret.arg[1]) <= capacity
    /\ len[1] + Len(ret.arg[2]) > capacity
    /\ len[1] > Len(ret.arg[1])
    /\ SubSeq(Text(1), len[1] - Len(ret.arg[1]) + 1, len[1]) = ret.arg[1]

\* C18: with sizes in UsizeBits-bit unsigned integers, push_str(s) rejects
\* every s whose true sum len + |s| exceeds the capacity, returning s and
\* leaving the buffer as it was; the machine sum never differs from the true
\* sum (a text and an array are at most isize_MAX bytes long), so no input is
\* accepted by wrapping, nothing is written past the array and len never
\* exceeds the capacity.
C18_Step(b) ==
    Called("push_str", b)
      => LET l == bytelen(Before(b))
             n == Len(ret'.arg)
         IN /\ usize_add(l, n) = l + n
            /\ l + n > capacity
                  => /\ ret'.res = Err(CapacityError(ret'.arg))
                     /\ After(b) = Before(b)
            /\ ret'.res = Ok
                  => /\ l + n <= capacity
                     /\ bytelen(After(b)) = l + n
            /\ Len(After(b).xs) = capacity
            /\ bytelen(After(b)) <= capacity
            /\ ~panicked'
====
